---- MODULE Spec2Model ----
(***************************************************************************)
(* Model of the AI interview frontend: the Interview component (voice      *)
(* session lifecycle, transcript consolidation, presence monitor and       *)
(* evaluation dispatch) and the App flow through Form and Validate.        *)
(*                                                                         *)
(* Texts are sequences of one-character strings, so that trim, startsWith, *)
(* includes and concatenation are computed as JavaScript computes them.    *)
(***************************************************************************)
EXTENDS Naturals, Sequences, FiniteSets, TLC

VARIABLES
  vapi,         \* useState(null): TRUE once the effect has stored the Vapi instance
  call,         \* the voice collaborator's call: "none", "starting", "live", "stopping"
  isConnected,  \* useState(false)
  isSpeaking,   \* useState(false)
  transcript,   \* useState([]): the raw fragments, in arrival order
  startCalls,   \* number of vapi.start(...) calls made
  stopCalls,    \* number of vapi.stop() calls made
  evals,        \* the run(...) invocations made by endCall, in order
  sessionId,    \* history: number of 'call-start' signals received
  callEnded,    \* history: 'call-end' received since the last 'call-start'
  stops,        \* history: endCall invocations since the last 'call-start'
  errors,       \* history: number of 'error' signals received
  detector,     \* useState(null): TRUE once the face detection model is stored
  inFlight,     \* number of detector.estimateFaces(video) calls not yet settled
  queries,      \* number of detector.estimateFaces(video) calls made
  warnings,     \* number of alert("Please be within the screen ...") shown
  lastDetection, \* history: how the last settled query ended: "none", "empty", "faces", "failed"
  userId,       \* the userId prop of Interview (App state, null until the form set it)
  runs,         \* progress of each run(...) invocation, in the order of evals
  torn,         \* call of the Vapi instance an effect cleanup has stopped: "none", "starting", "live", "stopping"
  teardowns,    \* number of effect cleanups run on a change of apiKey
  tornEvents,   \* history: 'call-end' and transcript messages handled that the stopped instance emitted
  view,         \* App: useState('form'): "form", "validate", "interview"
  photoPath,    \* App: useState(null), passed to Validate
  position,     \* App: useState('')
  profilePhoto, \* Form: a profile photo is selected
  submitting,   \* Form.handleSubmit: "idle", "posting", "uploading"
  formErrors,   \* Form: useState({}): the keys of errors
  newId,        \* Form.handleSubmit: res.data.id of the pending submission
  uploaded,     \* Form.handleSubmit: uploadedPhotoPath
  capturedPhoto, \* Validate: a photo is captured
  validating,   \* Validate.sendPhotoToServer: "idle", "uploading", "recognizing"
  recognition,  \* history: the last face-recognition response: "none", "success", "failure"
  camera,       \* Validate.startCamera: "none", "requesting", "granted", "denied"
  stream,       \* Validate: useState(null): the MediaStream stored
  tracksLive    \* the tracks of the acquired MediaStream are live

sessionVars == << vapi, call, isConnected, isSpeaking, transcript, startCalls,
                  stopCalls, evals, sessionId, callEnded, stops, errors >>

monitorVars == << detector, inFlight, queries, warnings, lastDetection >>

dispatchVars == << userId, runs >>

teardownVars == << torn, teardowns, tornEvents >>

appVars == << view, photoPath, position, profilePhoto, submitting, formErrors, newId,
             uploaded, capturedPhoto, validating, recognition, camera, stream,
             tracksLive >>

vars == << sessionVars, monitorVars, dispatchVars, teardownVars, appVars >>

----------------------------------------------------------------------------
(* Bounds of the model *)

MaxStarts == 2
MaxStops == 2
MaxFragments == 2
MaxErrors == 1
MaxInput == 3
MaxQueries == 2
MaxTeardowns == 1

----------------------------------------------------------------------------
(* Values *)

Assistant == "assistant"
User == "user"
Roles == {Assistant, User}

\* detectorConfig: maxFaces: 1
MaxFaces == 1

\* let currentRole = null
Null == "null"

\* Roles a candidate applies for, and the assistant id configured for each
Positions == { "RN", "LPN", "HCA" }

\* App.getAssistantId: switch (position)
getAssistantId(pos) ==
  IF pos = "RN" THEN "VITE_VAPI_RN_ASSISTANT_ID"
  ELSE IF pos = "LPN" THEN "VITE_VAPI_LPN_ASSISTANT_ID"
  ELSE IF pos = "HCA" THEN "VITE_VAPI_HCA_ASSISTANT_ID"
  ELSE ""

\* A parameter the caller did not pass
Undefined == "undefined"

\* File paths the profile picture upload returns
Paths == { "p1", "p2" }

\* The MediaStream getUserMedia resolves with
MediaStream == "ms"

\* Values of the userId prop: null, or the id the form submission stored
Candidate == "u1"
UserIds == { Null, Candidate }

\* Contents the scoring model returns: the JSON object asked for, or other text
Scores == "scores"
Prose == "prose"
Evaluations == { Scores, Prose }

\* Fragments the voice collaborator delivers during a modelled session
SessionTexts == { <<"a">>, <<"a", "b">> }
SessionFragments == [role : Roles, text : SessionTexts]

\* Fragment texts the consolidator is exercised on: empty, whitespace-only,
\* plain, growing, and with leading or trailing whitespace
InputTexts ==
  { <<>>, <<" ">>, <<"a">>, <<"b">>, <<"a", "b">>,
    <<" ", "a">>, <<" ", "a", "b">>, <<"a", " ">>, <<"a", " ", "b">> }
InputFragments == [role : Roles, text : InputTexts]

RECURSIVE SeqsUpTo(_, _)
SeqsUpTo(S, n) ==
  IF n = 0 THEN { <<>> }
  ELSE LET shorter == SeqsUpTo(S, n - 1)
       IN  shorter \cup { Append(s, x) : s \in shorter, x \in S }

----------------------------------------------------------------------------
(* String operations used by formatVapiTranscript *)

RECURSIVE TrimStart(_)
TrimStart(s) ==
  IF s = <<>> THEN s
  ELSE IF Head(s) = " " THEN TrimStart(Tail(s)) ELSE s

RECURSIVE TrimEnd(_)
TrimEnd(s) ==
  IF s = <<>> THEN s
  ELSE IF s[Len(s)] = " " THEN TrimEnd(SubSeq(s, 1, Len(s) - 1)) ELSE s

\* String.prototype.trim
Trim(s) == TrimEnd(TrimStart(s))

\* String.prototype.startsWith
StartsWith(s, p) == Len(p) <= Len(s) /\ SubSeq(s, 1, Len(p)) = p

\* String.prototype.includes
Includes(s, p) ==
  Len(p) <= Len(s) /\ \E i \in 0 .. (Len(s) - Len(p)) : SubSeq(s, i + 1, i + Len(p)) = p

----------------------------------------------------------------------------
(* formatVapiTranscript *)

\* if (!item.role || !item.text) continue
Skipped(item) == item.role = "" \/ item.text = <<>>

\* Flush that puts the finished message in front of the earlier ones
FlushPrepends(st) ==
  IF st.currentRole # Null /\ Trim(st.currentText) # <<>>
  THEN << [role |-> st.currentRole, text |-> Trim(st.currentText)] >> \o st.result
  ELSE st.result

\* Flush that pushes the accumulated text as it is
FlushNoTrim(st) ==
  IF st.currentRole # Null /\ Trim(st.currentText) # <<>>
  THEN Append(st.result, [role |-> st.currentRole, text |-> st.currentText])
  ELSE st.result

\* if (currentRole && currentText.trim()) result.push({role, text: currentText.trim()})
Flush(st) ==
  IF st.currentRole # Null /\ Trim(st.currentText) # <<>>
  THEN Append(st.result, [role |-> st.currentRole, text |-> Trim(st.currentText)])
  ELSE st.result

\* IsGrowth without the trim of the accumulated text
IsGrowthNoTrim(currentText, text) ==
  Len(text) > Len(currentText) /\ StartsWith(text, currentText)

\* item.text.length > currentText.length && item.text.startsWith(currentText.trim())
IsGrowth(currentText, text) ==
  Len(text) > Len(currentText) /\ StartsWith(text, Trim(currentText))

\* IsNewSentence with the arguments of includes swapped
IsNewSentenceSwapped(currentText, text) ==
  ~Includes(text, currentText) /\ Trim(text) # <<>>

\* IsNewSentence without the includes test
IsNewSentenceAlways(currentText, text) == Trim(text) # <<>>

\* !currentText.includes(item.text) && item.text.trim()
IsNewSentence(currentText, text) ==
  ~Includes(currentText, text) /\ Trim(text) # <<>>

\* FormatStep that opens the new turn without saving the previous message
FormatStepNoFlush(st, item) ==
  IF Skipped(item) THEN st
  ELSE IF item.role # st.currentRole
  THEN [result |-> st.result, currentRole |-> item.role, currentText |-> item.text]
  ELSE IF IsGrowth(st.currentText, item.text)
  THEN [st EXCEPT !.currentText = item.text]
  ELSE IF IsNewSentence(st.currentText, item.text)
  THEN [st EXCEPT !.currentText = st.currentText \o <<" ">> \o item.text]
  ELSE st

\* One iteration of the for loop
FormatStep(st, item) ==
  IF Skipped(item) THEN st
  ELSE IF item.role # st.currentRole
  THEN [result |-> Flush(st), currentRole |-> item.role, currentText |-> item.text]
  ELSE IF IsGrowth(st.currentText, item.text)
  THEN [st EXCEPT !.currentText = item.text]
  ELSE IF IsNewSentence(st.currentText, item.text)
  THEN [st EXCEPT !.currentText = st.currentText \o <<" ">> \o item.text]
  ELSE st

RECURSIVE FormatLoop(_, _, _)
FormatLoop(arr, i, st) ==
  IF i > Len(arr) THEN st ELSE FormatLoop(arr, i + 1, FormatStep(st, arr[i]))

\* formatVapiTranscript without the push of the last message
formatVapiTranscriptNoLastPush(transcriptArray) ==
  IF Len(transcriptArray) = 0 THEN <<>>
  ELSE FormatLoop(transcriptArray, 1,
                  [result |-> <<>>, currentRole |-> Null, currentText |-> <<>>]).result

formatVapiTranscript(transcriptArray) ==
  IF Len(transcriptArray) = 0 THEN <<>>
  ELSE Flush(FormatLoop(transcriptArray, 1,
                        [result |-> <<>>, currentRole |-> Null, currentText |-> <<>>]))

----------------------------------------------------------------------------
(* formatTranscriptForLLM *)

Header == "INTERVIEW TRANSCRIPT:\n\n"

Speaker(role) == IF role = Assistant THEN "AI INTERVIEWER" ELSE "CANDIDATE"

RECURSIVE RenderFrom(_, _, _)
RenderFrom(formatted, i, str) ==
  IF i > Len(formatted) THEN str
  ELSE RenderFrom(formatted, i + 1,
         str \o << Speaker(formatted[i].role), ": " >> \o formatted[i].text \o << "\n\n" >>)

formatTranscriptForLLM(transcriptArray) ==
  RenderFrom(formatVapiTranscript(transcriptArray), 1, << Header >>)

----------------------------------------------------------------------------
(* State after construction *)

\* The App, Form and Validate state with which the Interview is mounted: a
\* submission without profile photo, validated with a captured photo
AppAtInterview ==
  /\ view = "interview"
  /\ photoPath = Undefined
  /\ position = Null
  /\ profilePhoto = FALSE
  /\ submitting = "idle"
  /\ formErrors = {}
  /\ newId = Null
  /\ uploaded = Null
  /\ capturedPhoto = FALSE
  /\ validating = "idle"
  /\ recognition = "success"
  /\ camera = "granted"
  /\ stream = MediaStream
  /\ tracksLive = TRUE

Init ==
  /\ vapi = FALSE
  /\ call = "none"
  /\ isConnected = FALSE
  /\ isSpeaking = FALSE
  /\ transcript = <<>>
  /\ startCalls = 0
  /\ stopCalls = 0
  /\ evals = <<>>
  /\ sessionId = 0
  /\ callEnded = FALSE
  /\ stops = 0
  /\ errors = 0
  /\ detector = FALSE
  /\ inFlight = 0
  /\ queries = 0
  /\ warnings = 0
  /\ lastDetection = "none"
  /\ userId \in UserIds
  /\ runs = <<>>
  /\ torn = "none"
  /\ teardowns = 0
  /\ tornEvents = 0
  /\ AppAtInterview

----------------------------------------------------------------------------
(* Operations *)

\* useEffect(() => { const vapiInstance = new Vapi(apiKey); setVapi(vapiInstance); ... })
VapiEffect ==
  /\ ~vapi
  /\ vapi' = TRUE
  /\ UNCHANGED << call, isConnected, isSpeaking, transcript, startCalls, stopCalls,
                  evals, sessionId, callEnded, stops, errors >>
  /\ UNCHANGED monitorVars
  /\ UNCHANGED dispatchVars
  /\ UNCHANGED teardownVars
  /\ UNCHANGED appVars

\* Begin Interview (rendered while !isConnected) -> startCall
startCall ==
  /\ ~isConnected
  /\ vapi
  /\ startCalls < MaxStarts
  /\ startCalls' = startCalls + 1
  /\ call' = IF call = "none" THEN "starting" ELSE call
  /\ UNCHANGED << vapi, isConnected, isSpeaking, transcript, stopCalls, evals,
                  sessionId, callEnded, stops, errors >>
  /\ UNCHANGED monitorVars
  /\ UNCHANGED dispatchVars
  /\ UNCHANGED teardownVars
  /\ UNCHANGED appVars

\* End Interview (rendered while isConnected) -> endCall
endCall ==
  /\ isConnected
  /\ vapi
  /\ stopCalls < MaxStops
  /\ stopCalls' = stopCalls + 1
  /\ call' = IF call \in {"starting", "live"} THEN "stopping" ELSE call
  /\ LET formattedResult == formatVapiTranscript(transcript)
         transcriptString == formatTranscriptForLLM(formattedResult)
     IN  evals' = Append(evals, [result |-> transcriptString,
                                 formatted |-> formattedResult,
                                 session |-> sessionId])
  /\ runs' = Append(runs, [phase |-> "scoring", userId |-> userId, scored |-> FALSE,
                           evaluation |-> Null, puts |-> <<>>])
  /\ stops' = stops + 1
  /\ UNCHANGED << vapi, isConnected, isSpeaking, transcript, startCalls,
                  sessionId, callEnded, errors >>
  /\ UNCHANGED monitorVars
  /\ UNCHANGED userId
  /\ UNCHANGED teardownVars
  /\ UNCHANGED appVars

\* vapiInstance.on("call-start", ...)
OnCallStart ==
  /\ call = "starting"
  /\ call' = "live"
  /\ isConnected' = TRUE
  /\ sessionId' = sessionId + 1
  /\ callEnded' = FALSE
  /\ stops' = 0
  /\ UNCHANGED << vapi, isSpeaking, transcript, startCalls, stopCalls, evals, errors >>
  /\ UNCHANGED monitorVars
  /\ UNCHANGED dispatchVars
  /\ UNCHANGED teardownVars
  /\ UNCHANGED appVars

\* vapiInstance.on("call-end", ...)
OnCallEnd ==
  /\ call \in {"live", "stopping"}
  /\ call' = "none"
  /\ isConnected' = FALSE
  /\ isSpeaking' = FALSE
  /\ callEnded' = TRUE
  /\ UNCHANGED << vapi, transcript, startCalls, stopCalls, evals, sessionId,
                  stops, errors >>
  /\ UNCHANGED monitorVars
  /\ UNCHANGED dispatchVars
  /\ UNCHANGED teardownVars
  /\ UNCHANGED appVars

\* vapiInstance.on("speech-start", ...)
OnSpeechStart ==
  /\ call = "live"
  /\ isSpeaking' = TRUE
  /\ UNCHANGED << vapi, call, isConnected, transcript, startCalls, stopCalls,
                  evals, sessionId, callEnded, stops, errors >>
  /\ UNCHANGED monitorVars
  /\ UNCHANGED dispatchVars
  /\ UNCHANGED teardownVars
  /\ UNCHANGED appVars

\* OnSpeechEnd clearing the connection flag as the "call-end" handler does
OnSpeechEndDisconnects ==
  /\ call = "live"
  /\ isSpeaking' = FALSE
  /\ isConnected' = FALSE
  /\ UNCHANGED << vapi, call, transcript, startCalls, stopCalls,
                  evals, sessionId, callEnded, stops, errors >>
  /\ UNCHANGED monitorVars
  /\ UNCHANGED dispatchVars
  /\ UNCHANGED teardownVars
  /\ UNCHANGED appVars

\* vapiInstance.on("speech-end", ...)
OnSpeechEnd ==
  /\ call = "live"
  /\ isSpeaking' = FALSE
  /\ UNCHANGED << vapi, call, isConnected, transcript, startCalls, stopCalls,
                  evals, sessionId, callEnded, stops, errors >>
  /\ UNCHANGED monitorVars
  /\ UNCHANGED dispatchVars
  /\ UNCHANGED teardownVars
  /\ UNCHANGED appVars

\* vapiInstance.on("message", ...)
OnMessage ==
  /\ call \in {"live", "stopping"}
  /\ Len(transcript) < MaxFragments
  /\ \E type \in {"transcript", "other"}, f \in SessionFragments :
       transcript' = IF type = "transcript" THEN Append(transcript, f) ELSE transcript
  /\ UNCHANGED << vapi, call, isConnected, isSpeaking, startCalls, stopCalls,
                  evals, sessionId, callEnded, stops, errors >>
  /\ UNCHANGED monitorVars
  /\ UNCHANGED dispatchVars
  /\ UNCHANGED teardownVars
  /\ UNCHANGED appVars

\* vapiInstance.on("error", ...)
OnError ==
  /\ call # "none"
  /\ errors < MaxErrors
  /\ errors' = errors + 1
  /\ call' \in {call, "none"}
  /\ UNCHANGED << vapi, isConnected, isSpeaking, transcript, startCalls, stopCalls,
                  evals, sessionId, callEnded, stops >>
  /\ UNCHANGED monitorVars
  /\ UNCHANGED dispatchVars
  /\ UNCHANGED teardownVars
  /\ UNCHANGED appVars

\* loadModel: setDetector(detector) after createDetector resolved
LoadModel ==
  /\ ~detector
  /\ detector' = TRUE
  /\ UNCHANGED << inFlight, queries, warnings, lastDetection >>
  /\ UNCHANGED sessionVars
  /\ UNCHANGED dispatchVars
  /\ UNCHANGED teardownVars
  /\ UNCHANGED appVars

\* setInterval(detectFaces, 1000): one tick, up to the await. The Webcam is
\* rendered only while isConnected, so webcamRef.current is set exactly then;
\* ready is video.readyState === 4.
Tick ==
  /\ detector
  /\ queries < MaxQueries
  /\ \E ready \in BOOLEAN :
       IF isConnected /\ ready
       THEN /\ inFlight' = inFlight + 1
            /\ queries' = queries + 1
       ELSE UNCHANGED << inFlight, queries >>
  /\ UNCHANGED << detector, warnings, lastDetection >>
  /\ UNCHANGED sessionVars
  /\ UNCHANGED dispatchVars
  /\ UNCHANGED teardownVars
  /\ UNCHANGED appVars

\* OnFaces with the test on faces.length inverted
OnFacesInverted ==
  /\ inFlight > 0
  /\ inFlight' = inFlight - 1
  /\ \E n \in 0 .. MaxFaces :
       /\ warnings' = IF n # 0 THEN warnings + 1 ELSE warnings
       /\ lastDetection' = IF n = 0 THEN "empty" ELSE "faces"
  /\ UNCHANGED << detector, queries >>
  /\ UNCHANGED sessionVars
  /\ UNCHANGED dispatchVars
  /\ UNCHANGED teardownVars
  /\ UNCHANGED appVars

\* detectFaces after the await: estimateFaces resolved with n faces
OnFaces ==
  /\ inFlight > 0
  /\ inFlight' = inFlight - 1
  /\ \E n \in 0 .. MaxFaces :
       /\ warnings' = IF n = 0 THEN warnings + 1 ELSE warnings
       /\ lastDetection' = IF n = 0 THEN "empty" ELSE "faces"
  /\ UNCHANGED << detector, queries >>
  /\ UNCHANGED sessionVars
  /\ UNCHANGED dispatchVars
  /\ UNCHANGED teardownVars
  /\ UNCHANGED appVars

\* OnDetectError that handles a rejected query like an empty result
OnDetectErrorWarns ==
  /\ inFlight > 0
  /\ inFlight' = inFlight - 1
  /\ lastDetection' = "failed"
  /\ warnings' = warnings + 1
  /\ UNCHANGED << detector, queries >>
  /\ UNCHANGED sessionVars
  /\ UNCHANGED dispatchVars
  /\ UNCHANGED teardownVars
  /\ UNCHANGED appVars

\* detectFaces after the await: estimateFaces rejected, catch (error)
OnDetectError ==
  /\ inFlight > 0
  /\ inFlight' = inFlight - 1
  /\ lastDetection' = "failed"
  /\ UNCHANGED << detector, queries, warnings >>
  /\ UNCHANGED sessionVars
  /\ UNCHANGED dispatchVars
  /\ UNCHANGED teardownVars
  /\ UNCHANGED appVars

\* ScoringResolved without the test of userId
ScoringResolvedAlwaysPuts ==
  \E i \in DOMAIN runs, content \in Evaluations :
    /\ runs[i].phase = "scoring"
    /\ runs' = [runs EXCEPT ![i] =
         [@ EXCEPT !.phase = "putting", !.scored = TRUE, !.evaluation = content,
                   !.puts = Append(@, [userId |-> runs[i].userId,
                                       performanceDetails |-> content])]]
    /\ UNCHANGED userId
    /\ UNCHANGED sessionVars
    /\ UNCHANGED monitorVars
    /\ UNCHANGED teardownVars
    /\ UNCHANGED appVars

\* run: evaluateInterview(result) resolved; if (userId) axios.put(...) is called
ScoringResolved ==
  \E i \in DOMAIN runs, content \in Evaluations :
    /\ runs[i].phase = "scoring"
    /\ runs' = [runs EXCEPT ![i] =
         IF runs[i].userId # Null
         THEN [@ EXCEPT !.phase = "putting", !.scored = TRUE, !.evaluation = content,
                        !.puts = Append(@, [userId |-> runs[i].userId,
                                            performanceDetails |-> content])]
         ELSE [@ EXCEPT !.phase = "done", !.scored = TRUE, !.evaluation = content]]
    /\ UNCHANGED userId
    /\ UNCHANGED sessionVars
    /\ UNCHANGED monitorVars
    /\ UNCHANGED teardownVars
    /\ UNCHANGED appVars

\* ScoringRejected that lets the failure reach the session state
ScoringRejectedReopens ==
  \E i \in DOMAIN runs :
    /\ runs[i].phase = "scoring"
    /\ runs' = [runs EXCEPT ![i].phase = "failed"]
    /\ isConnected' = TRUE
    /\ UNCHANGED << vapi, call, isSpeaking, transcript, startCalls, stopCalls, evals,
                    sessionId, callEnded, stops, errors >>
    /\ UNCHANGED userId
    /\ UNCHANGED monitorVars
    /\ UNCHANGED teardownVars
    /\ UNCHANGED appVars

\* run: evaluateInterview(result) rejected, catch (error)
ScoringRejected ==
  \E i \in DOMAIN runs :
    /\ runs[i].phase = "scoring"
    /\ runs' = [runs EXCEPT ![i].phase = "failed"]
    /\ UNCHANGED userId
    /\ UNCHANGED sessionVars
    /\ UNCHANGED monitorVars
    /\ UNCHANGED teardownVars
    /\ UNCHANGED appVars

\* run: axios.put(...) resolved
PutResolved ==
  \E i \in DOMAIN runs :
    /\ runs[i].phase = "putting"
    /\ runs' = [runs EXCEPT ![i].phase = "done"]
    /\ UNCHANGED userId
    /\ UNCHANGED sessionVars
    /\ UNCHANGED monitorVars
    /\ UNCHANGED teardownVars
    /\ UNCHANGED appVars

\* run: axios.put(...) rejected, catch (error)
PutRejected ==
  \E i \in DOMAIN runs :
    /\ runs[i].phase = "putting"
    /\ runs' = [runs EXCEPT ![i].phase = "failed"]
    /\ UNCHANGED userId
    /\ UNCHANGED sessionVars
    /\ UNCHANGED monitorVars
    /\ UNCHANGED teardownVars
    /\ UNCHANGED appVars

\* apiKey changes: the effect cleanup stops the old instance, whose handlers
\* stay registered, and the effect stores a new instance that has no call
ApiKeyChange ==
  /\ vapi
  /\ torn = "none"
  /\ teardowns < MaxTeardowns
  /\ teardowns' = teardowns + 1
  /\ torn' = IF call \in {"starting", "live"} THEN "stopping" ELSE call
  /\ call' = "none"
  /\ UNCHANGED << vapi, isConnected, isSpeaking, transcript, startCalls, stopCalls,
                  evals, sessionId, callEnded, stops, errors >>
  /\ UNCHANGED tornEvents
  /\ UNCHANGED monitorVars
  /\ UNCHANGED dispatchVars
  /\ UNCHANGED appVars

\* 'call-end' emitted by the stopped instance: its handler is still registered
OnTornCallEnd ==
  /\ torn \in {"live", "stopping"}
  /\ torn' = "none"
  /\ tornEvents' = tornEvents + 1
  /\ isConnected' = FALSE
  /\ isSpeaking' = FALSE
  /\ callEnded' = TRUE
  /\ UNCHANGED << vapi, call, transcript, startCalls, stopCalls, evals, sessionId,
                  stops, errors >>
  /\ UNCHANGED teardowns
  /\ UNCHANGED monitorVars
  /\ UNCHANGED dispatchVars
  /\ UNCHANGED appVars

\* 'message' emitted by the stopped instance: its handler is still registered
OnTornMessage ==
  /\ torn \in {"live", "stopping"}
  /\ Len(transcript) < MaxFragments
  /\ \E type \in {"transcript", "other"}, f \in SessionFragments :
       IF type = "transcript"
       THEN /\ transcript' = Append(transcript, f)
            /\ tornEvents' = tornEvents + 1
       ELSE UNCHANGED << transcript, tornEvents >>
  /\ UNCHANGED << vapi, call, isConnected, isSpeaking, startCalls, stopCalls,
                  evals, sessionId, callEnded, stops, errors >>
  /\ UNCHANGED << torn, teardowns >>
  /\ UNCHANGED monitorVars
  /\ UNCHANGED dispatchVars
  /\ UNCHANGED appVars

\* The detached calls of run(...) stay pending in Next; NextDispatch below
\* settles them.
Next ==
  \/ VapiEffect
  \/ startCall
  \/ endCall
  \/ OnCallStart
  \/ OnCallEnd
  \/ OnSpeechStart
  \/ OnSpeechEnd
  \/ OnMessage
  \/ OnError
  \/ LoadModel
  \/ Tick
  \/ OnFaces
  \/ OnDetectError

Spec == Init /\ [][Next]_vars

----------------------------------------------------------------------------
(* The consolidator on bounded inputs: a connected session holding any     *)
(* fragment sequence, ended by the user once.                              *)

InitInput ==
  /\ vapi = TRUE
  /\ call = "live"
  /\ isConnected = TRUE
  /\ isSpeaking = FALSE
  /\ transcript \in SeqsUpTo(InputFragments, MaxInput)
  /\ startCalls = 1
  /\ stopCalls = 0
  /\ evals = <<>>
  /\ sessionId = 1
  /\ callEnded = FALSE
  /\ stops = 0
  /\ errors = 0
  /\ detector = FALSE
  /\ inFlight = 0
  /\ queries = 0
  /\ warnings = 0
  /\ lastDetection = "none"
  /\ userId = Candidate
  /\ runs = <<>>
  /\ torn = "none"
  /\ teardowns = 0
  /\ tornEvents = 0
  /\ AppAtInterview

NextInput == stopCalls = 0 /\ endCall

SpecInput == InitInput /\ [][NextInput]_vars

\* The same sessions, for the claims about the shape of the consolidated output
SpecOutput == InitInput /\ [][NextInput]_vars

----------------------------------------------------------------------------
(* The voice session alone: the commands, the lifecycle signals, the       *)
(* speaking-state signals, the fragments and the errors.                   *)

NextSpeech ==
  \/ VapiEffect
  \/ startCall
  \/ endCall
  \/ OnCallStart
  \/ OnCallEnd
  \/ OnSpeechStart
  \/ OnSpeechEnd
  \/ OnMessage
  \/ OnError

SpecSpeech == Init /\ [][NextSpeech]_vars

----------------------------------------------------------------------------
(* The presence monitor beside sessions that the collaborator ends: the    *)
(* start command and the signals that mount and unmount the Webcam, the    *)
(* fragments, and the detection interval.                                  *)

NextMonitor ==
  \/ VapiEffect
  \/ startCall
  \/ OnCallStart
  \/ OnCallEnd
  \/ OnMessage
  \/ LoadModel
  \/ Tick
  \/ OnFaces
  \/ OnDetectError

SpecMonitor == Init /\ [][NextMonitor]_vars

----------------------------------------------------------------------------
(* The evaluation dispatcher: sessions without fragments that the user and *)
(* the collaborator end, and the detached scoring and persistence calls.   *)

NextDispatch ==
  \/ VapiEffect
  \/ startCall
  \/ endCall
  \/ OnCallStart
  \/ OnCallEnd
  \/ ScoringResolved
  \/ ScoringRejected
  \/ PutResolved
  \/ PutRejected

SpecDispatch == Init /\ [][NextDispatch]_vars

----------------------------------------------------------------------------
(* Replacement of the voice instance during a session: the lifecycle       *)
(* signals, the fragments, and the events of the stopped instance.         *)

NextTeardown ==
  \/ VapiEffect
  \/ startCall
  \/ OnCallStart
  \/ OnCallEnd
  \/ OnMessage
  \/ ApiKeyChange
  \/ OnTornCallEnd
  \/ OnTornMessage

SpecTeardown == Init /\ [][NextTeardown]_vars

----------------------------------------------------------------------------
(* The application flow: Form, then Validate, up to mounting the Interview *)

interviewVars == << sessionVars, monitorVars, teardownVars, runs >>

\* App.handleFormSubmit(name, id, role, photoPath); rendering Validate runs its
\* mount effect, which calls startCamera up to await getUserMedia
handleFormSubmit(id, role, path) ==
  /\ view' = "validate"
  /\ userId' = id
  /\ position' = role
  /\ photoPath' = path
  /\ camera' = "requesting"

\* What validateForm reads of the three fields: whether name.trim() is empty;
\* whether email.trim() is empty and whether email matches /\S+@\S+\.\S+/;
\* whether phoneNumber.trim() is empty and whether its digits are exactly ten
FormData == [name : {"blank", "filled"},
             email : {"blank", "malformed", "wellformed"},
             phoneNumber : {"blank", "notTenDigits", "tenDigits"}]

\* validateForm(): the keys of newErrors
validateForm(formData) ==
  (IF formData.name = "blank" THEN {"name"} ELSE {})
    \cup (IF formData.email # "wellformed" THEN {"email"} ELSE {})
    \cup (IF formData.phoneNumber # "tenDigits" THEN {"phoneNumber"} ELSE {})

\* Form.handleSubmit up to its first return or await
handleSubmit(formData, photo) ==
  /\ view = "form"
  /\ submitting = "idle"
  /\ profilePhoto' = photo
  /\ LET validationErrors == validateForm(formData)
     IN  IF validationErrors # {}
         THEN /\ formErrors' = validationErrors
              /\ UNCHANGED submitting
         ELSE /\ submitting' = "posting"
              /\ UNCHANGED formErrors
  /\ UNCHANGED << view, photoPath, position, newId, uploaded, capturedPhoto,
                  validating, recognition, camera, stream, tracksLive >>
  /\ UNCHANGED userId
  /\ UNCHANGED interviewVars

\* Submit (disabled while isLoading) -> handleSubmit
FormSubmit == \E formData \in FormData, photo \in BOOLEAN : handleSubmit(formData, photo)

\* Form.handleSubmit: the POST resolved; with a photo the upload is awaited,
\* without one onSubmit(formData.name, res.data.id, uploadedPhotoPath) is called
PostResolved ==
  /\ submitting = "posting"
  /\ \E id \in UserIds :
       IF profilePhoto
       THEN /\ submitting' = "uploading"
            /\ newId' = id
            /\ UNCHANGED << view, userId, position, photoPath, camera >>
       ELSE /\ submitting' = "idle"
            /\ handleFormSubmit(id, Null, Undefined)
            /\ UNCHANGED newId
  /\ UNCHANGED << profilePhoto, uploaded, capturedPhoto, validating, recognition,
                  stream, tracksLive >>
  /\ UNCHANGED interviewVars
  /\ UNCHANGED formErrors

\* PostRejected that goes on to call onSubmit
PostRejectedSubmits ==
  /\ submitting = "posting"
  /\ submitting' = "idle"
  /\ formErrors' = {"submit"}
  /\ handleFormSubmit(Null, Null, Undefined)
  /\ UNCHANGED << profilePhoto, newId, uploaded, capturedPhoto, validating,
                  recognition, stream, tracksLive >>
  /\ UNCHANGED interviewVars

\* Form.handleSubmit: the POST rejected, catch (err) sets errors.submit
PostRejected ==
  /\ submitting = "posting"
  /\ submitting' = "idle"
  /\ formErrors' = {"submit"}
  /\ UNCHANGED << view, photoPath, position, profilePhoto, newId, uploaded,
                  capturedPhoto, validating, recognition, camera, stream, tracksLive >>
  /\ UNCHANGED userId
  /\ UNCHANGED interviewVars

\* Form.handleSubmit: the photo upload resolved with photoRes.data.data.file_path
UploadResolved ==
  /\ submitting = "uploading"
  /\ submitting' = "idle"
  /\ \E path \in Paths :
       /\ uploaded' = path
       /\ handleFormSubmit(newId, path, Undefined)
  /\ UNCHANGED << profilePhoto, newId, capturedPhoto, validating, recognition,
                  stream, tracksLive >>
  /\ UNCHANGED interviewVars
  /\ UNCHANGED formErrors

\* Form.handleSubmit: the photo upload rejected, catch (photoError) sets
\* errors.submit and onSubmit(formData.name, res.data.id, null) is called
UploadRejected ==
  /\ submitting = "uploading"
  /\ submitting' = "idle"
  /\ formErrors' = {"submit"}
  /\ handleFormSubmit(newId, Null, Undefined)
  /\ UNCHANGED << profilePhoto, newId, uploaded, capturedPhoto, validating,
                  recognition, stream, tracksLive >>
  /\ UNCHANGED interviewVars

\* startCamera: getUserMedia resolved; setStream is dropped once Validate is
\* unmounted
CameraGranted ==
  /\ camera = "requesting"
  /\ camera' = "granted"
  /\ tracksLive' = TRUE
  /\ stream' = IF view = "validate" THEN MediaStream ELSE stream
  /\ UNCHANGED << view, photoPath, position, profilePhoto, submitting, newId,
                  uploaded, capturedPhoto, validating, recognition >>
  /\ UNCHANGED userId
  /\ UNCHANGED interviewVars
  /\ UNCHANGED formErrors

\* startCamera: getUserMedia rejected, catch (error)
CameraDenied ==
  /\ camera = "requesting"
  /\ camera' = "denied"
  /\ UNCHANGED << view, photoPath, position, profilePhoto, submitting, newId,
                  uploaded, capturedPhoto, validating, recognition, stream, tracksLive >>
  /\ UNCHANGED userId
  /\ UNCHANGED interviewVars
  /\ UNCHANGED formErrors

\* Capture Photo (enabled while isCameraOn) -> capturePhoto
capturePhoto ==
  /\ view = "validate"
  /\ stream # Null
  /\ ~capturedPhoto
  /\ capturedPhoto' = TRUE
  /\ UNCHANGED << view, photoPath, position, profilePhoto, submitting, newId,
                  uploaded, validating, recognition, camera, stream, tracksLive >>
  /\ UNCHANGED userId
  /\ UNCHANGED interviewVars
  /\ UNCHANGED formErrors

\* Retake -> retakePhoto
retakePhoto ==
  /\ view = "validate"
  /\ capturedPhoto
  /\ capturedPhoto' = FALSE
  /\ UNCHANGED << view, photoPath, position, profilePhoto, submitting, newId,
                  uploaded, validating, recognition, camera, stream, tracksLive >>
  /\ UNCHANGED userId
  /\ UNCHANGED interviewVars
  /\ UNCHANGED formErrors

\* Send (disabled while isLoading) -> sendPhotoToServer up to await fetch(SERVER_ENDPOINT)
sendPhotoToServer ==
  /\ view = "validate"
  /\ capturedPhoto
  /\ validating = "idle"
  /\ validating' = "uploading"
  /\ UNCHANGED << view, photoPath, position, profilePhoto, submitting, newId,
                  uploaded, capturedPhoto, recognition, camera, stream, tracksLive >>
  /\ UNCHANGED userId
  /\ UNCHANGED interviewVars
  /\ UNCHANGED formErrors

\* sendPhotoToServer: the live photo upload settled; a response that is not ok
\* and a rejection both end in catch (error)
LivePhotoUploaded ==
  /\ validating = "uploading"
  /\ \E ok \in BOOLEAN : validating' = IF ok THEN "recognizing" ELSE "idle"
  /\ UNCHANGED << view, photoPath, position, profilePhoto, submitting, newId,
                  uploaded, capturedPhoto, recognition, camera, stream, tracksLive >>
  /\ UNCHANGED userId
  /\ UNCHANGED interviewVars
  /\ UNCHANGED formErrors

\* The cleanup of Validate's mount effect: stopCamera as defined in the first
\* render, where stream is still null, so that if (stream) fails
stopCamera(seen) ==
  IF seen # Null
  THEN /\ tracksLive' = FALSE
       /\ stream' = Null
  ELSE UNCHANGED << tracksLive, stream >>

\* RecognitionResolved that proceeds whatever the response says
RecognitionResolvedAlwaysProceeds ==
  /\ validating = "recognizing"
  /\ validating' = "idle"
  /\ capturedPhoto' = FALSE
  /\ \E success \in BOOLEAN :
       /\ recognition' = IF success THEN "success" ELSE "failure"
       /\ view' = "interview"
       /\ stopCamera(Null)
  /\ UNCHANGED << photoPath, position, profilePhoto, submitting, newId, uploaded,
                  camera >>
  /\ UNCHANGED userId
  /\ UNCHANGED interviewVars
  /\ UNCHANGED formErrors

\* sendPhotoToServer: the face-recognition response arrived; on success
\* onValidationSuccess() sets the view and Validate unmounts
RecognitionResolved ==
  /\ validating = "recognizing"
  /\ validating' = "idle"
  /\ capturedPhoto' = FALSE
  /\ \E success \in BOOLEAN :
       /\ recognition' = IF success THEN "success" ELSE "failure"
       /\ IF success
          THEN /\ view' = "interview"
               /\ stopCamera(Null)
          ELSE UNCHANGED << view, stream, tracksLive >>
  /\ UNCHANGED << photoPath, position, profilePhoto, submitting, newId, uploaded,
                  camera >>
  /\ UNCHANGED userId
  /\ UNCHANGED interviewVars
  /\ UNCHANGED formErrors

\* sendPhotoToServer: the face-recognition request rejected, catch (error)
RecognitionRejected ==
  /\ validating = "recognizing"
  /\ validating' = "idle"
  /\ UNCHANGED << view, photoPath, position, profilePhoto, submitting, newId,
                  uploaded, capturedPhoto, recognition, camera, stream, tracksLive >>
  /\ UNCHANGED userId
  /\ UNCHANGED interviewVars
  /\ UNCHANGED formErrors

InitApp ==
  /\ vapi = FALSE
  /\ call = "none"
  /\ isConnected = FALSE
  /\ isSpeaking = FALSE
  /\ transcript = <<>>
  /\ startCalls = 0
  /\ stopCalls = 0
  /\ evals = <<>>
  /\ sessionId = 0
  /\ callEnded = FALSE
  /\ stops = 0
  /\ errors = 0
  /\ detector = FALSE
  /\ inFlight = 0
  /\ queries = 0
  /\ warnings = 0
  /\ lastDetection = "none"
  /\ userId = Null
  /\ runs = <<>>
  /\ torn = "none"
  /\ teardowns = 0
  /\ tornEvents = 0
  /\ view = "form"
  /\ photoPath = Null
  /\ position = ""
  /\ profilePhoto = FALSE
  /\ submitting = "idle"
  /\ formErrors = {}
  /\ newId = Null
  /\ uploaded = Null
  /\ capturedPhoto = FALSE
  /\ validating = "idle"
  /\ recognition = "none"
  /\ camera = "none"
  /\ stream = Null
  /\ tracksLive = FALSE

NextApp ==
  \/ FormSubmit
  \/ PostResolved
  \/ PostRejected
  \/ UploadResolved
  \/ UploadRejected
  \/ CameraGranted
  \/ CameraDenied
  \/ capturePhoto
  \/ retakePhoto
  \/ sendPhotoToServer
  \/ LivePhotoUploaded
  \/ RecognitionResolved
  \/ RecognitionRejected

SpecApp == InitApp /\ [][NextApp]_vars

----------------------------------------------------------------------------
(* Session lifecycle claims *)

\* <Webcam ref={webcamRef} /> is rendered, and holds the camera, while isConnected
WebcamHeld == isConnected

\* Number of evaluations dispatched for session sid
DispatchCount(sid) == Cardinality({ i \in DOMAIN evals : evals[i].session = sid })

\* C1: in a session in which both a user stop command and the 'call-end'
\* signal occurred, the evaluation was dispatched exactly once.
C1_OneShotTermination ==
  (sessionId >= 1 /\ stops >= 1 /\ callEnded) => DispatchCount(sessionId) = 1

\* C2: a session that became active and was ended by 'call-end' alone (no
\* user stop) has dispatched exactly one evaluation, of its final transcript.
C2_CallEndDispatches ==
  (sessionId >= 1 /\ callEnded /\ stops = 0) =>
     /\ DispatchCount(sessionId) = 1
     /\ \E i \in DOMAIN evals :
          /\ evals[i].session = sessionId
          /\ evals[i].formatted = formatVapiTranscript(transcript)

\* C3: a stop command issued after a first stop command of the same session
\* neither calls the voice collaborator's stop again nor dispatches again.
C3_SecondStopIsNoOp ==
  [][ (stops >= 1 /\ stops' = stops + 1) =>
        (stopCalls' = stopCalls /\ evals' = evals) ]_vars

\* C4: once the session has left Idle (the collaborator's start was called),
\* no start command calls the collaborator's start again.
C4_StartRejectedWhenNotIdle ==
  [][ startCalls >= 1 => startCalls' = startCalls ]_vars

\* C5: an 'error' signal received while the session is connected ends it
\* like 'call-end' does: isConnected becomes false.
C5_ErrorEndsSession ==
  [][ (errors' = errors + 1 /\ isConnected) => ~isConnected' ]_vars

\* C6: every 'call-start' signal resets the transcript to empty.
C6_CallStartResetsTranscript ==
  [][ sessionId' = sessionId + 1 => transcript' = <<>> ]_vars

\* C7: once a session has ended (by 'call-end' or by a user stop), the
\* collaborator's start is not called again on this instance and the
\* session never becomes connected again.
C7_EndedIsTerminal ==
  [][ (sessionId >= 1 /\ (callEnded \/ stops >= 1)) =>
        (startCalls' = startCalls /\ (isConnected' => isConnected)) ]_vars

----------------------------------------------------------------------------
(* Consolidator claims, on the fragment sequence held in transcript *)

\* s with fragment f inserted after its first pos elements
InsertAt(s, pos, f) == SubSeq(s, 1, pos) \o << f >> \o SubSeq(s, pos + 1, Len(s))

\* C8: inserting an empty or whitespace-only fragment, of any role and at any
\* position, leaves the consolidated transcript unchanged.
C8_BlankFragmentsDiscarded ==
  \A pos \in 0 .. Len(transcript), role \in Roles, blank \in { <<>>, <<" ">> } :
    formatVapiTranscript(InsertAt(transcript, pos, [role |-> role, text |-> blank]))
      = formatVapiTranscript(transcript)

\* C9: the consolidated transcript has no two adjacent utterances with the
\* same role and identical text.
C9_NoAdjacentDuplicates ==
  LET out == formatVapiTranscript(transcript)
  IN  \A i \in 1 .. (Len(out) - 1) :
        ~(out[i].role = out[i + 1].role /\ out[i].text = out[i + 1].text)

\* Role of the last fragment before index i that the loop does not skip
RECURSIVE PrevRole(_, _)
PrevRole(s, i) ==
  IF i <= 1 THEN Null
  ELSE IF s[i - 1].text # <<>> THEN s[i - 1].role ELSE PrevRole(s, i - 1)

\* Fragments i..Len(s) have one role and non-blank text, and open a turn
RunOpensTurn(s, i) ==
  /\ \A k \in i .. Len(s) : s[k].role = s[i].role /\ Trim(s[k].text) # <<>>
  /\ PrevRole(s, i) # s[i].role

\* The stream up to the end of the run consolidates to the utterances closed
\* before the run, followed by one utterance holding the trimmed last fragment
RunIsOneUtterance(s, i) ==
  formatVapiTranscript(s) =
    Append(formatVapiTranscript(SubSeq(s, 1, i - 1)),
           [role |-> s[i].role, text |-> Trim(s[Len(s)].text)])

Accumulator(s) ==
  FormatLoop(s, 1, [result |-> <<>>, currentRole |-> Null, currentText |-> <<>>])

\* s without its last fragment
Front(s) == SubSeq(s, 1, Len(s) - 1)

\* Roles of the maximal runs of consecutive same-role fragments of s, in order
RECURSIVE RunRoles(_)
RunRoles(s) ==
  IF s = <<>> THEN <<>>
  ELSE IF Len(s) >= 2 /\ s[Len(s) - 1].role = s[Len(s)].role THEN RunRoles(Front(s))
  ELSE Append(RunRoles(Front(s)), s[Len(s)].role)

\* C11: when every fragment has non-empty trimmed text, the transcript has
\* exactly one utterance per maximal run of consecutive same-role fragments,
\* in arrival order and with that run's role.
C11_SpeakerSwitchFlush ==
  (\A k \in 1 .. Len(transcript) : Trim(transcript[k].text) # <<>>) =>
    LET out == formatVapiTranscript(transcript)
    IN  [i \in 1 .. Len(out) |-> out[i].role] = RunRoles(transcript)

\* C11 witness: ('a' by the interviewer, 'b' by the candidate) was dispatched
\* as two utterances, the first flushed by the role change.
C11_Witness ==
  /\ transcript = << [role |-> Assistant, text |-> <<"a">>],
                     [role |-> User, text |-> <<"b">>] >>
  /\ Len(evals) = 1
  /\ evals[1].formatted = << [role |-> Assistant, text |-> <<"a">>],
                             [role |-> User, text |-> <<"b">>] >>

\* C12: a same-role fragment with non-empty trimmed text that is neither a
\* growth of the accumulator nor contained in it is appended to the
\* accumulator after exactly one space, and stays in the same utterance.
C12_DisjointClauseAppended ==
  transcript # <<>> =>
    LET f == transcript[Len(transcript)]
        before == Accumulator(Front(transcript))
        acc == before.currentText
    IN  ( /\ f.role = before.currentRole
          /\ Trim(f.text) # <<>>
          /\ ~(Len(f.text) > Len(acc) /\ StartsWith(f.text, Trim(acc)))
          /\ ~Includes(acc, f.text) )
        => /\ Accumulator(transcript) =
                [before EXCEPT !.currentText = acc \o <<" ">> \o f.text]
           /\ formatVapiTranscript(transcript) =
                Append(before.result,
                       [role |-> f.role, text |-> Trim(acc \o <<" ">> \o f.text)])

\* C12 witness: ('a', 'b') by the candidate was dispatched as the single
\* utterance 'a b'.
C12_Witness ==
  /\ transcript = << [role |-> User, text |-> <<"a">>],
                     [role |-> User, text |-> <<"b">>] >>
  /\ Len(evals) = 1
  /\ evals[1].formatted = << [role |-> User, text |-> <<"a", " ", "b">>] >>

\* C13: a same-role fragment contained in the accumulator and not a growth
\* of it leaves the accumulator unchanged; and delivering a fragment a second
\* time right after the first leaves the loop state, hence the consolidation
\* of the stream and of every continuation of it, as delivering it once.
C13_DuplicateSuppression ==
  transcript # <<>> =>
    LET f == transcript[Len(transcript)]
        before == Accumulator(Front(transcript))
        after == Accumulator(transcript)
        acc == before.currentText
        twice == Accumulator(Append(transcript, f))
    IN  /\ ( /\ f.role = before.currentRole
             /\ Includes(acc, f.text)
             /\ ~(Len(f.text) > Len(acc) /\ StartsWith(f.text, Trim(acc))) )
           => after = before
        /\ twice = after
        /\ Flush(twice) = formatVapiTranscript(transcript)

\* C13 witness: ('a', 'a') by the candidate was dispatched as one utterance 'a'.
C13_Witness ==
  /\ transcript = << [role |-> User, text |-> <<"a">>],
                     [role |-> User, text |-> <<"a">>] >>
  /\ Len(evals) = 1
  /\ evals[1].formatted = << [role |-> User, text |-> <<"a">>] >>

\* Index of the last fragment of s with non-empty trimmed text, 0 if none
RECURSIVE LastNonBlank(_)
LastNonBlank(s) ==
  IF s = <<>> THEN 0
  ELSE IF Trim(s[Len(s)].text) # <<>> THEN Len(s) ELSE LastNonBlank(Front(s))

\* C14: when some fragment has non-empty trimmed text, the last utterance of
\* the transcript has the role of the last such fragment and its text
\* contains that fragment's trimmed text.
C14_FinalFlush ==
  LET last == LastNonBlank(transcript)
  IN  last # 0 =>
    LET f == transcript[last]
        out == formatVapiTranscript(transcript)
    IN  /\ out # <<>>
        /\ out[Len(out)].role = f.role
        /\ Includes(out[Len(out)].text, Trim(f.text))

\* C14 witness: the last speaker turn 'b', followed only by a whitespace
\* fragment, is the last utterance of the dispatched transcript.
C14_Witness ==
  /\ transcript = << [role |-> Assistant, text |-> <<"a">>],
                     [role |-> User, text |-> <<"b">>],
                     [role |-> User, text |-> <<" ">>] >>
  /\ Len(evals) = 1
  /\ evals[1].formatted = << [role |-> Assistant, text |-> <<"a">>],
                             [role |-> User, text |-> <<"b">>] >>

\* C15: consolidating the consolidated transcript again changes nothing, so
\* the dispatched document holds each of its utterances once and unmerged.
C15_IdempotentFlush ==
  /\ formatVapiTranscript(formatVapiTranscript(transcript))
       = formatVapiTranscript(transcript)
  /\ \A i \in DOMAIN evals :
       evals[i].result = RenderFrom(evals[i].formatted, 1, << Header >>)

\* C16: after any prefix that holds a fragment with non-empty trimmed text,
\* the open utterance has the role of the last such fragment.
C16_OpenRoleIsLastAccepted ==
  \A n \in 1 .. Len(transcript) :
    LET prefix == SubSeq(transcript, 1, n)
    IN  LastNonBlank(prefix) # 0 =>
          Accumulator(prefix).currentRole = prefix[LastNonBlank(prefix)].role

----------------------------------------------------------------------------
(* Presence monitor claims *)

\* C17: at most one estimateFaces query is in flight at any time.
C17_SingleFlight == inFlight <= 1

\* C18: a detection query is issued only while the session is Active:
\* connected, with no user stop and no 'call-end' yet.
C18_QueriesOnlyWhileActive ==
  [][ queries' = queries + 1 =>
        (sessionId >= 1 /\ isConnected /\ stops = 0 /\ ~callEnded) ]_vars

\* C19: a detection result with zero faces emits one warning, a result with
\* faces emits none, and neither changes the session state, the transcript
\* or the voice call.
C19_EmptyResultOnlyWarns ==
  [][ (inFlight' = inFlight - 1 /\ lastDetection' \in {"empty", "faces"}) =>
        /\ lastDetection' = "empty" => warnings' = warnings + 1
        /\ lastDetection' = "faces" => warnings' = warnings
        /\ UNCHANGED sessionVars ]_vars

\* C19 witness: in a connected session holding a fragment, a query returned
\* no face and the warning was shown.
C19_Witness ==
  /\ isConnected
  /\ transcript # <<>>
  /\ lastDetection = "empty"
  /\ warnings = 1
  /\ queries = 1

\* C20: a failing detection query emits no warning, changes no session state
\* and leaves the monitor running: after it, a tick on a ready video of a
\* connected session still issues a query.
C20_DetectionErrorSwallowed ==
  /\ [][ (inFlight' = inFlight - 1 /\ lastDetection' = "failed") =>
           /\ warnings' = warnings
           /\ detector' = detector
           /\ UNCHANGED sessionVars ]_vars
  /\ []( (lastDetection = "failed" /\ isConnected /\ queries < MaxQueries) =>
           ENABLED (Tick /\ queries' = queries + 1) )

\* C20 witness: the only query made so far failed, no warning was shown, the
\* session is still connected and the next tick can issue a query.
C20_Witness ==
  /\ lastDetection = "failed"
  /\ queries = 1
  /\ inFlight = 0
  /\ warnings = 0
  /\ isConnected
  /\ ENABLED (Tick /\ queries' = queries + 1)

----------------------------------------------------------------------------
(* Evaluation document claims *)

\* The document the specification describes for the utterances of t: the
\* header, then per utterance its label, ': ', its text and a blank line
RECURSIVE DocumentOf(_)
DocumentOf(t) ==
  IF t = <<>> THEN << Header >>
  ELSE LET u == t[Len(t)]
       IN  DocumentOf(Front(t))
             \o << IF u.role = Assistant THEN "AI INTERVIEWER" ELSE "CANDIDATE", ": " >>
             \o u.text \o << "\n\n" >>

\* Number of speaker lines of a document
SpeakerLines(doc) == Cardinality({ k \in DOMAIN doc : doc[k] = ": " })

\* C21: every dispatched document is the header followed by one labelled
\* line per utterance of the dispatched transcript, in transcript order, so
\* it has as many speaker lines as the transcript has utterances.
C21_DocumentRendersTranscript ==
  \A i \in DOMAIN evals :
    /\ evals[i].result = DocumentOf(evals[i].formatted)
    /\ SpeakerLines(evals[i].result) = Len(evals[i].formatted)

\* C22: a session that received no fragment and has ended has invoked the
\* dispatcher with an empty transcript and a document holding only the header.
C22_EmptySessionDispatches ==
  (sessionId >= 1 /\ callEnded /\ transcript = <<>>) =>
    \E i \in DOMAIN evals :
      /\ evals[i].session = sessionId
      /\ evals[i].formatted = <<>>
      /\ evals[i].result = << Header >>

----------------------------------------------------------------------------
(* Evaluation dispatcher claims *)

\* C23: every dispatch has called the persistence collaborator at most once;
\* it has called it exactly when its scoring call returned and its userId is
\* present, and then with that userId and that scoring result.
C23_PersistOnlyScoredWithUser ==
  \A i \in DOMAIN runs :
    /\ Len(runs[i].puts) <= 1
    /\ Len(runs[i].puts) = 1 <=> (runs[i].scored /\ runs[i].userId # Null)
    /\ Len(runs[i].puts) = 1 =>
         runs[i].puts[1] = [userId |-> runs[i].userId,
                            performanceDetails |-> runs[i].evaluation]

\* C23 witness: a dispatch of an identified candidate whose scoring returned
\* and whose single PUT completed.
C23_Witness ==
  \E i \in DOMAIN runs :
    /\ runs[i].phase = "done"
    /\ runs[i].userId = Candidate
    /\ Len(runs[i].puts) = 1

\* A step of a detached scoring or persistence call
DetachedStep == runs' # runs /\ evals' = evals

\* C24: a step of a detached call, whatever its outcome, changes nothing of
\* the session: not the connection or speaking flag, the transcript, the
\* voice call or the dispatches made; and whether the session can be ended
\* depends on the session alone, not on the state of the detached calls.
C24_DetachedCallsDoNotAffectSession ==
  /\ [][ DetachedStep => (UNCHANGED sessionVars /\ UNCHANGED monitorVars) ]_vars
  /\ []( /\ ENABLED OnCallEnd <=> call \in {"live", "stopping"}
         /\ ENABLED endCall <=> (isConnected /\ vapi /\ stopCalls < MaxStops) )

\* C24 witness: a session ended by 'call-end' stays ended after the scoring
\* call of its dispatch has failed.
C24_Witness ==
  /\ callEnded
  /\ ~isConnected
  /\ call = "none"
  /\ \E i \in DOMAIN runs : runs[i].phase = "failed" /\ evals[i].session = sessionId

\* Whether a scoring response has the EvaluationResult shape
MatchesShape(content) == content = Scores

\* C25: a scoring response without the EvaluationResult shape is never
\* forwarded to the persistence collaborator.
C25_MalformedNeverForwarded ==
  \A i \in DOMAIN runs :
    \A k \in DOMAIN runs[i].puts : MatchesShape(runs[i].puts[k].performanceDetails)

----------------------------------------------------------------------------
(* Resource claims *)

\* C26: every step that leaves Active (a user stop, a 'call-end' signal, an
\* 'error' signal of a connected session) leaves the webcam released, and the
\* webcam is held only while the voice call is starting or live.
C26_WebcamReleasedOnExit ==
  /\ [][ ( \/ stops' = stops + 1
           \/ (callEnded' /\ ~callEnded)
           \/ (errors' = errors + 1 /\ isConnected) ) => ~WebcamHeld' ]_vars
  /\ [](WebcamHeld => call \in {"starting", "live"})

\* C27: an event of the stopped voice instance changes neither the
\* connection flag, nor the speaking flag, nor the transcript.
C27_TornInstanceIsSilent ==
  [][ tornEvents' = tornEvents + 1 =>
        UNCHANGED << isConnected, isSpeaking, transcript >> ]_vars

----------------------------------------------------------------------------
(* Application flow claims *)

\* Position of a view in the flow form -> validate -> interview
Rank(v) == IF v = "form" THEN 1 ELSE IF v = "validate" THEN 2 ELSE 3

\* C28: the view never moves backward and never skips validation; it becomes
\* 'interview' only in the step in which the face-recognition response
\* reports success; and a step in which the live photo upload or the
\* recognition fails leaves the view at 'validate'.
C28_ViewOnlyMovesForward ==
  /\ [][ Rank(view') \in { Rank(view), Rank(view) + 1 } ]_vars
  /\ [][ (view' = "interview" /\ view # "interview") =>
           (view = "validate" /\ validating = "recognizing" /\ recognition' = "success") ]_vars
  /\ [][ (validating # "idle" /\ validating' = "idle" /\ recognition' # "success") =>
           (view = "validate" /\ view' = "validate") ]_vars

\* C28 witness: the interview view, entered after a submission that uploaded
\* a profile photo and a face-recognition response that reported success.
C28_Witness ==
  /\ view = "interview"
  /\ recognition = "success"
  /\ uploaded \in Paths

\* C29: once Validate is unmounted, no track of a stream acquired by
\* startCamera is live, whether getUserMedia resolved before or after.
C29_CameraStoppedOnUnmount ==
  view = "interview" => ~tracksLive

\* C30: after a submission in which the profile photo was uploaded, the
\* photoPath App stores is the file path the upload returned.
C30_PhotoPathIsUploadedPath ==
  (view # "form" /\ uploaded \in Paths) => photoPath = uploaded

\* C31: the assistantId App passes to Interview, and Interview to the voice
\* collaborator's start, is the one configured for a role, never the empty
\* default.
C31_RoleSpecificAssistant ==
  view = "interview" =>
    getAssistantId(position) \in { getAssistantId(pos) : pos \in Positions }

----------------------------------------------------------------------------
(* Transcript claims *)

\* p is a prefix of s
IsPrefix(p, s) == Len(p) <= Len(s) /\ SubSeq(s, 1, Len(p)) = p

\* C32: the utterances already pushed after the fragments before the last
\* one, and the consolidation of those fragments without its last utterance,
\* are, unchanged and in order, prefixes of the consolidation of all fragments.
C32_ClosedUtterancesArePrefix ==
  transcript # <<>> =>
    LET before == Accumulator(Front(transcript))
        out == formatVapiTranscript(transcript)
    IN  /\ IsPrefix(before.result, out)
        /\ IsPrefix(Front(Flush(before)), out)

\* C32 witness: after ('a' by the interviewer, 'b' by the candidate), the
\* further fragment 'a' of the interviewer left the closed utterance 'a' in
\* front of the dispatched transcript.
C32_Witness ==
  /\ transcript = << [role |-> Assistant, text |-> <<"a">>],
                     [role |-> User, text |-> <<"b">>],
                     [role |-> Assistant, text |-> <<"a">>] >>
  /\ Len(evals) = 1
  /\ Len(evals[1].formatted) = 3
  /\ evals[1].formatted[1] = [role |-> Assistant, text |-> <<"a">>]

\* C35: every utterance of the consolidated transcript has a non-empty text
\* that neither starts nor ends with whitespace.
C35_UtterancesAreTrimmed ==
  LET out == formatVapiTranscript(transcript)
  IN  \A i \in DOMAIN out :
        /\ out[i].text # <<>>
        /\ out[i].text[1] # " "
        /\ out[i].text[Len(out[i].text)] # " "

\* C35 witness: the fragments ' a' and 'a ' of two speakers, and a
\* whitespace-only fragment, were dispatched as the utterances 'a' and 'a'.
C35_Witness ==
  /\ transcript = << [role |-> Assistant, text |-> <<" ", "a">>],
                     [role |-> User, text |-> <<"a", " ">>],
                     [role |-> User, text |-> <<" ">>] >>
  /\ Len(evals) = 1
  /\ evals[1].formatted = << [role |-> Assistant, text |-> <<"a">>],
                             [role |-> User, text |-> <<"a">>] >>

----------------------------------------------------------------------------
(* Stop snapshot claims *)

\* C34: every user stop dispatches the document of the consolidation of
\* exactly the fragments delivered so far, in arrival order, and a fragment
\* delivered afterwards changes no document already dispatched.
C34_DocumentIsSnapshot ==
  /\ [][ stops' = stops + 1 =>
           LET consolidated == formatVapiTranscript(transcript)
           IN  evals' = Append(evals, [result |-> DocumentOf(consolidated),
                                       formatted |-> consolidated,
                                       session |-> sessionId]) ]_vars
  /\ [][ transcript' # transcript => evals' = evals ]_vars


----------------------------------------------------------------------------
(* Speaking-state claims *)

\* Everything but the 'who is speaking' flag
silentVars == << vapi, call, isConnected, transcript, startCalls, stopCalls, evals,
                 sessionId, callEnded, stops, errors, monitorVars, dispatchVars,
                 teardownVars, appVars >>

\* Which commands and events can happen next is decided without the flag
\* (for endCall, evaluated where no fragment has to be consolidated)
SpeechBlindGuards ==
  /\ ENABLED VapiEffect <=> ~vapi
  /\ ENABLED startCall <=> (~isConnected /\ vapi /\ startCalls < MaxStarts)
  /\ transcript = <<>> =>
       (ENABLED endCall <=> (isConnected /\ vapi /\ stopCalls < MaxStops))
  /\ ENABLED OnCallStart <=> call = "starting"
  /\ ENABLED OnCallEnd <=> call \in {"live", "stopping"}
  /\ ENABLED OnMessage <=> (call \in {"live", "stopping"} /\ Len(transcript) < MaxFragments)
  /\ ENABLED OnError <=> (call # "none" /\ errors < MaxErrors)

\* What a command or event does to the connection state, the transcript and
\* the dispatches is decided without the flag
SpeechBlindStep ==
  /\ isConnected' = (IF OnCallStart THEN TRUE ELSE IF OnCallEnd THEN FALSE ELSE isConnected)
  /\ \/ transcript' = transcript
     \/ OnMessage /\ \E f \in SessionFragments : transcript' = Append(transcript, f)
  /\ evals' = IF endCall
              THEN Append(evals,
                          [result |-> formatTranscriptForLLM(formatVapiTranscript(transcript)),
                           formatted |-> formatVapiTranscript(transcript),
                           session |-> sessionId])
              ELSE evals

\* C33: a speech-start or speech-end signal changes the 'who is speaking'
\* flag and nothing else, and no command or event reads the flag: what can
\* happen next, and what it does to the connection state, the transcript,
\* the dispatched documents and their number, is the same whatever the flag
\* holds, so two event sequences that differ only in their speech signals
\* agree on all of these.
C33_SpeechSignalsOnlySetFlag ==
  /\ [][ (OnSpeechStart \/ OnSpeechEnd) => UNCHANGED silentVars ]_vars
  /\ [] SpeechBlindGuards
  /\ [][ SpeechBlindStep ]_vars

\* A dispatch made while the flag was raised by a speech-start signal
C33_Witness ==
  /\ isSpeaking
  /\ call = "stopping"
  /\ Len(transcript) = 2
  /\ Len(evals) = 1
  /\ evals[1].formatted = formatVapiTranscript(transcript)


----------------------------------------------------------------------------
(* Form submission claims *)

\* Form's onSubmit prop, App.handleFormSubmit, is called
OnSubmitCalled == view = "form" /\ view' = "validate"

\* C36: handleSubmit calls onSubmit only in a step where the user-creation
\* request has resolved; with validation errors it stores them, sends no
\* request and does not call onSubmit; a rejected creation request does not
\* call onSubmit; a rejected photo upload still calls onSubmit with the
\* created id and null as the photo path argument (the third argument, which
\* App stores as position); and isLoading is false after each of these.
C36_OnSubmitOnlyAfterCreation ==
  /\ [][ OnSubmitCalled => (PostResolved \/ UploadResolved \/ UploadRejected) ]_vars
  /\ [][ \A formData \in FormData, photo \in BOOLEAN :
           (handleSubmit(formData, photo) /\ validateForm(formData) # {}) =>
             /\ formErrors' = validateForm(formData)
             /\ submitting' = "idle"
             /\ ~OnSubmitCalled ]_vars
  /\ [][ PostRejected => (submitting' = "idle" /\ ~OnSubmitCalled /\ userId' = userId) ]_vars
  /\ [][ UploadRejected =>
           /\ OnSubmitCalled
           /\ userId' = newId
           /\ position' = Null
           /\ submitting' = "idle" ]_vars
  /\ [][ (PostResolved /\ ~profilePhoto) \/ UploadResolved => submitting' = "idle" ]_vars

\* A submission whose user was created and whose photo upload was rejected
C36_Witness ==
  /\ view = "validate"
  /\ profilePhoto
  /\ formErrors = {"submit"}
  /\ userId = Candidate
  /\ newId = Candidate
  /\ position = Null
  /\ uploaded = Null
  /\ submitting = "idle"


====
